---- MODULE Spec2Model ----
(***************************************************************************)
(* PS/2 keyboard driver of the Flower kernel: the event synthesizer        *)
(* Ps2Keyboard (kernel/src/drivers/keyboard/mod.rs), the character         *)
(* resolution KeyCharMapping::char and the scancode translation.           *)
(***************************************************************************)
EXTENDS Integers, Sequences, FiniteSets, TLC

VARIABLES
    key_state_map,  \* Ps2Keyboard.key_state_map : [u8; KEY_STATE_LENGTH]
    state,          \* Ps2Keyboard.state : StateFlags (bits of a u8)
    panicked,       \* the kernel panicked inside read_event
    polled,         \* what the controller answered to the last read_event
    result,         \* what the last read_event returned
    calls,          \* controller calls made by the last read_event, in order
    tracked,        \* history: the keycode whose scancodes are recorded, as a set
    hist,           \* history: the last scancodes consumed for `tracked`
    cm_mapping,     \* KeyCharMapping under resolution
    cm_modifiers,   \* ModifierFlags under resolution
    cm_char,        \* what KeyCharMapping::char returned
    tr_scancode,    \* Scancode under translation
    tr_keycode      \* what Keycode::try_from returned

vars == <<key_state_map, state, panicked, polled, result, calls,
          tracked, hist, cm_mapping, cm_modifiers, cm_char, tr_scancode, tr_keycode>>

kbdVars == <<key_state_map, state, panicked, polled, result, calls,
             tracked, hist>>

cmVars == <<cm_mapping, cm_modifiers, cm_char, tr_scancode, tr_keycode>>

---------------------------------------------------------------------------
(* Bounds of the model *)

\* keys the environment holds down at the same time
MaxHeld == 2

\* scancodes remembered for the tracked keycode
MaxHist == 3

---------------------------------------------------------------------------
(* u8 arithmetic *)

\* 1 << i
Pow2(i) == 2 ^ i

\* (b >> i) & 1
BitOf(b, i) == (b \div Pow2(i)) % 2

\* b & mask != 0, for a mask of one bit
HasBit(b, mask) == (b \div mask) % 2 = 1

\* b | mask, for a mask of one bit
BitOr(b, mask) == IF HasBit(b, mask) THEN b ELSE b + mask

\* b & !mask, for a mask of one bit
BitAndNot(b, mask) == IF HasBit(b, mask) THEN b - mask ELSE b

\* b ^ mask, for a mask of one bit
BitXor(b, mask) == IF HasBit(b, mask) THEN b - mask ELSE b + mask

---------------------------------------------------------------------------
(* bitflags! ModifierFlags and StateFlags *)

MOD_SHIFT == 1
MOD_NUM_LOCK == 2
MOD_CAPS_LOCK == 4

ST_NUM_LOCK == 1
ST_SCROLL_LOCK == 2
ST_CAPS_LOCK == 4
ST_FUNCTION_LOCK == 8

\* bitflags: self.contains(flag)
Contains(bits, flag) == HasBit(bits, flag)

\* bitflags: self.set(flag, value)
SetFlag(bits, flag, value) == IF value THEN BitOr(bits, flag) ELSE BitAndNot(bits, flag)

\* bitflags: self.toggle(flag)
Toggle(bits, flag) == BitXor(bits, flag)

\* ModifierFlags::from_modifiers
from_modifiers(shift, num_lock, caps_lock) ==
    SetFlag(SetFlag(SetFlag(0, MOD_SHIFT, shift), MOD_NUM_LOCK, num_lock), MOD_CAPS_LOCK, caps_lock)

---------------------------------------------------------------------------
(* KeyCharMapping *)

None == <<>>

Some(x) == <<x>>

Empty == [kind |-> "Empty", base |-> "", alt |-> ""]

Single(c) == [kind |-> "Single", base |-> c, alt |-> ""]

Shifted(c, s) == [kind |-> "Shifted", base |-> c, alt |-> s]

Capitalized(c, s) == [kind |-> "Capitalized", base |-> c, alt |-> s]

NumLocked(c) == [kind |-> "NumLocked", base |-> c, alt |-> ""]

\* char with Capitalized resolved by OR of caps lock and shift
char_caps_or_shift(mapping, modifiers) ==
    IF mapping.kind = "Single" THEN Some(mapping.base)
    ELSE IF mapping.kind = "Shifted"
         THEN (IF Contains(modifiers, MOD_SHIFT) THEN Some(mapping.alt) ELSE Some(mapping.base))
    ELSE IF mapping.kind = "Capitalized"
         THEN (IF Contains(modifiers, MOD_CAPS_LOCK) \/ Contains(modifiers, MOD_SHIFT)
               THEN Some(mapping.alt) ELSE Some(mapping.base))
    ELSE IF mapping.kind = "NumLocked" /\ ~Contains(modifiers, MOD_NUM_LOCK)
         THEN Some(mapping.base)
    ELSE None

\* char with NumLocked giving its character while num lock is active
char_numlock_active(mapping, modifiers) ==
    IF mapping.kind = "Single" THEN Some(mapping.base)
    ELSE IF mapping.kind = "Shifted"
         THEN (IF Contains(modifiers, MOD_SHIFT) THEN Some(mapping.alt) ELSE Some(mapping.base))
    ELSE IF mapping.kind = "Capitalized"
         THEN (IF Contains(modifiers, MOD_CAPS_LOCK) # Contains(modifiers, MOD_SHIFT)
               THEN Some(mapping.alt) ELSE Some(mapping.base))
    ELSE IF mapping.kind = "NumLocked" /\ Contains(modifiers, MOD_NUM_LOCK)
         THEN Some(mapping.base)
    ELSE None

\* char with Shifted resolved like Capitalized would be under OR
char_shifted_by_caps(mapping, modifiers) ==
    IF mapping.kind = "Single" THEN Some(mapping.base)
    ELSE IF mapping.kind = "Shifted"
         THEN (IF Contains(modifiers, MOD_SHIFT) \/ Contains(modifiers, MOD_CAPS_LOCK)
               THEN Some(mapping.alt) ELSE Some(mapping.base))
    ELSE IF mapping.kind = "Capitalized"
         THEN (IF Contains(modifiers, MOD_CAPS_LOCK) # Contains(modifiers, MOD_SHIFT)
               THEN Some(mapping.alt) ELSE Some(mapping.base))
    ELSE IF mapping.kind = "NumLocked" /\ ~Contains(modifiers, MOD_NUM_LOCK)
         THEN Some(mapping.base)
    ELSE None

\* KeyCharMapping::char: the match arms in the order of the source
char(mapping, modifiers) ==
    IF mapping.kind = "Single" THEN Some(mapping.base)
    ELSE IF mapping.kind = "Shifted"
         THEN (IF Contains(modifiers, MOD_SHIFT) THEN Some(mapping.alt) ELSE Some(mapping.base))
    ELSE IF mapping.kind = "Capitalized"
         THEN (IF Contains(modifiers, MOD_CAPS_LOCK) # Contains(modifiers, MOD_SHIFT)
               THEN Some(mapping.alt) ELSE Some(mapping.base))
    ELSE IF mapping.kind = "NumLocked" /\ ~Contains(modifiers, MOD_NUM_LOCK)
         THEN Some(mapping.base)
    ELSE None

---------------------------------------------------------------------------
(* keymap: keymap::codes, the two PS/2 set 2 tables and the US QWERTY      *)
(* character table.  The keycode namespace is 0..254; the keys below are   *)
(* the ones the driver names plus one key per character policy and the     *)
(* keys at the upper end of the namespace.                                 *)

ESCAPE == 0
SCROLL_LOCK == 14
KEY_1 == 33
NUM_LOCK == 80
NUM_PAD_7 == 81
Q == 65
CAPS_LOCK == 96
LEFT_SHIFT == 128
RIGHT_SHIFT == 140
FUNCTION == 161
KEY_248 == 248

Keycodes == {ESCAPE, SCROLL_LOCK, KEY_1, NUM_LOCK, NUM_PAD_7, Q, CAPS_LOCK, LEFT_SHIFT,
             RIGHT_SHIFT, FUNCTION, KEY_248}

\* keymap::get_code_ps2_set_2: plain scancode byte -> Option<Keycode>
get_code_ps2_set_2(code) ==
    CASE code = 18 -> Some(LEFT_SHIFT)
      [] code = 21 -> Some(Q)
      [] code = 22 -> Some(KEY_1)
      [] code = 88 -> Some(CAPS_LOCK)
      [] code = 89 -> Some(RIGHT_SHIFT)
      [] code = 108 -> Some(NUM_PAD_7)
      [] code = 118 -> Some(ESCAPE)
      [] code = 119 -> Some(NUM_LOCK)
      [] code = 126 -> Some(SCROLL_LOCK)
      [] OTHER -> None

\* keymap::get_extended_code_ps2_set_2: extended scancode byte -> Option<Keycode>
get_extended_code_ps2_set_2(code) ==
    CASE code = 31 -> Some(FUNCTION)
      [] code = 108 -> Some(KEY_248)
      [] OTHER -> None

\* keymap::get_us_qwerty_char: keycode -> KeyCharMapping
get_us_qwerty_char(keycode) ==
    CASE keycode = Q -> Capitalized("q", "Q")
      [] keycode = KEY_1 -> Shifted("1", "!")
      [] keycode = NUM_PAD_7 -> NumLocked("7")
      [] OTHER -> Empty

\* scancode bytes of the two tables
Codes == {18, 21, 22, 31, 88, 89, 108, 118, 119, 126}

---------------------------------------------------------------------------
(* Scancode -> Keycode *)

Ok(v) == [ok |-> TRUE, value |-> v]

Err(e) == [ok |-> FALSE, value |-> e]

UnknownPlainScancode(code) == [kind |-> "UnknownPlainScancode", code |-> code]

UnknownExtendedScancode(code) == [kind |-> "UnknownExtendedScancode", code |-> code]

\* try_from looking the code up in the other table when the selected one
\* does not have it
try_from_either_table(sc) ==
    LET converted == IF ~sc.extended
                     THEN get_code_ps2_set_2(sc.code)
                     ELSE get_extended_code_ps2_set_2(sc.code)
        other == IF ~sc.extended
                 THEN get_extended_code_ps2_set_2(sc.code)
                 ELSE get_code_ps2_set_2(sc.code)
    IN  IF converted # None THEN Ok(converted[1])
        ELSE IF other # None THEN Ok(other[1])
        ELSE IF ~sc.extended THEN Err(UnknownPlainScancode(sc.code))
        ELSE Err(UnknownExtendedScancode(sc.code))

\* impl TryFrom<Scancode> for Keycode
try_from(sc) ==
    LET converted == IF ~sc.extended
                     THEN get_code_ps2_set_2(sc.code)
                     ELSE get_extended_code_ps2_set_2(sc.code)
    IN  IF converted # None THEN Ok(converted[1])
        ELSE IF ~sc.extended THEN Err(UnknownPlainScancode(sc.code))
        ELSE Err(UnknownExtendedScancode(sc.code))

Scancode(code, extended, make) == [code |-> code, extended |-> extended, make |-> make]

\* the scancodes the controller delivers: every scancode the tables know,
\* a byte under the flag its table does not know it under (21 is plain only,
\* 31 is extended only), and the byte 255 of neither table
Scancodes ==
    {sc \in [code : Codes, extended : BOOLEAN, make : BOOLEAN] : try_from(sc).ok}
    \cup {Scancode(21, TRUE, TRUE), Scancode(31, FALSE, FALSE),
          Scancode(255, FALSE, TRUE)}

---------------------------------------------------------------------------
(* Ps2Keyboard *)

\* const KEY_STATE_LENGTH: usize = 0xFF / 8
KEY_STATE_LENGTH == 255 \div 8

Buckets == 0..(KEY_STATE_LENGTH - 1)

\* Ps2Keyboard::pressed on a given key_state_map
pressed_in(map, keycode) ==
    LET index == keycode
        bucket == IF (index \div 8) \in DOMAIN map THEN map[index \div 8] ELSE 0
        bit_index == index % 8
    IN  BitOf(bucket, bit_index) # 0

\* Ps2Keyboard::pressed
pressed(keycode) == pressed_in(key_state_map, keycode)

\* KeyEvent { keycode, char, event_type, modifiers }
KeyEvent(keycode, ch, event_type, modifiers) ==
    [keycode |-> keycode, char |-> ch, event_type |-> event_type, modifiers |-> modifiers]

\* current_modifiers taking shift from the left shift key alone
current_modifiers_left_shift ==
    LET shift == pressed(LEFT_SHIFT)
        num_lock == Contains(state, ST_NUM_LOCK)
        caps_lock == Contains(state, ST_CAPS_LOCK)
    IN  from_modifiers(shift, num_lock, caps_lock)

\* the modifiers create_event computes from the keyboard's state
current_modifiers ==
    LET shift == pressed(LEFT_SHIFT) \/ pressed(RIGHT_SHIFT)
        num_lock == Contains(state, ST_NUM_LOCK)
        caps_lock == Contains(state, ST_CAPS_LOCK)
    IN  from_modifiers(shift, num_lock, caps_lock)

\* the event type create_event gives a scancode of `keycode`
event_type_of(sc, keycode) ==
    IF sc.make /\ pressed(keycode) THEN "Repeat"
    ELSE IF sc.make THEN "Make"
    ELSE "Break"

\* create_event resolving the character without the modifiers
create_event_no_modifiers(sc) ==
    LET modifiers == current_modifiers
        converted == try_from(sc)
    IN  IF converted.ok
        THEN LET keycode == converted.value
                 ch == char(get_us_qwerty_char(keycode), 0)
             IN  Some(KeyEvent(keycode, ch, event_type_of(sc, keycode), modifiers))
        ELSE None

\* Ps2Keyboard::create_event: Option<KeyEvent>
create_event(sc) ==
    LET modifiers == current_modifiers
        converted == try_from(sc)
    IN  IF converted.ok
        THEN LET keycode == converted.value
                 ch == char(get_us_qwerty_char(keycode), modifiers)
             IN  Some(KeyEvent(keycode, ch, event_type_of(sc, keycode), modifiers))
        ELSE None

\* handle_state toggling on every make scancode, repeats included
handle_state_on_repeat(event) ==
    IF event.event_type \in {"Make", "Repeat"}
    THEN CASE event.keycode = SCROLL_LOCK -> Toggle(state, ST_SCROLL_LOCK)
           [] event.keycode = NUM_LOCK -> Toggle(state, ST_NUM_LOCK)
           [] event.keycode = CAPS_LOCK -> Toggle(state, ST_CAPS_LOCK)
           [] event.keycode = ESCAPE /\ pressed(FUNCTION) -> Toggle(state, ST_FUNCTION_LOCK)
           [] OTHER -> state
    ELSE state

\* handle_state toggling function lock on Escape, Function held or not
handle_state_escape_alone(event) ==
    IF event.event_type = "Make"
    THEN CASE event.keycode = SCROLL_LOCK -> Toggle(state, ST_SCROLL_LOCK)
           [] event.keycode = NUM_LOCK -> Toggle(state, ST_NUM_LOCK)
           [] event.keycode = CAPS_LOCK -> Toggle(state, ST_CAPS_LOCK)
           [] event.keycode = ESCAPE -> Toggle(state, ST_FUNCTION_LOCK)
           [] OTHER -> state
    ELSE state

\* Ps2Keyboard::handle_state: the StateFlags after the event
handle_state(event) ==
    IF event.event_type = "Make"
    THEN CASE event.keycode = SCROLL_LOCK -> Toggle(state, ST_SCROLL_LOCK)
           [] event.keycode = NUM_LOCK -> Toggle(state, ST_NUM_LOCK)
           [] event.keycode = CAPS_LOCK -> Toggle(state, ST_CAPS_LOCK)
           [] event.keycode = ESCAPE /\ pressed(FUNCTION) -> Toggle(state, ST_FUNCTION_LOCK)
           [] OTHER -> state
    ELSE state

\* update_key_state assigning the bucket instead of or-ing and and-ing it
update_key_state_overwrite(map, index, make) ==
    LET bit == Pow2(index % 8)
        bucket_index == index \div 8
    IN  IF make
        THEN [map EXCEPT ![bucket_index] = bit]
        ELSE [map EXCEPT ![bucket_index] = 0]

\* read_event, lines 260-267: the key_state_map after the event's scancode
update_key_state(map, index, make) ==
    LET bit == Pow2(index % 8)
        bucket_index == index \div 8
    IN  IF make
        THEN [map EXCEPT ![bucket_index] = BitOr(map[bucket_index], bit)]
        ELSE [map EXCEPT ![bucket_index] = BitAndNot(map[bucket_index], bit)]

\* Keyboard::num_lock
num_lock == Contains(state, ST_NUM_LOCK)

\* Keyboard::scroll_lock
scroll_lock == Contains(state, ST_SCROLL_LOCK)

\* Keyboard::caps_lock
caps_lock == Contains(state, ST_CAPS_LOCK)

\* Keyboard::function_lock
function_lock == Contains(state, ST_FUNCTION_LOCK)

\* port_calls that never marks the port dirty
port_calls_never_dirty(event) == <<"keyboard", "read_scancode">>

\* read_event, lines 254-271: the controller calls of a read_event that got
\* a scancode; set_port_dirty(true) is called when no event was created
port_calls(event) ==
    IF event # None
    THEN <<"keyboard", "read_scancode">>
    ELSE <<"keyboard", "read_scancode", "set_port_dirty">>

\* the index read_event computes is inside key_state_map
in_bounds(index) == (index \div 8) \in Buckets

---------------------------------------------------------------------------
(* The controller, as read_event sees it *)

\* Ps2Error values the controller's calls fail with
Ps2Errors == {"DeviceUnavailable", "ExpectedResponse"}

Answer(outcome, sc, err) == [outcome |-> outcome, sc |-> sc, err |-> err]

Returned(tag, event, err) == [tag |-> tag, event |-> event, err |-> err]

\* the keys the environment uses: all of them, or, while the scancodes of
\* one keycode are recorded, that key, a shift key, a lock key and a letter
InPlay == IF tracked = {} THEN Keycodes ELSE tracked \cup {LEFT_SHIFT, CAPS_LOCK, Q}

\* keys whose pressed bit is set
Held == {k \in Keycodes : pressed(k)}

\* the history of the tracked keycode after a scancode of keycode k
Record(k, sc, returned) ==
    IF k \notin tracked THEN hist
    ELSE LET entry == [make |-> sc.make, was_pressed |-> pressed(k), returned |-> returned]
             kept == IF Len(hist) >= MaxHist THEN Tail(hist) ELSE hist
         IN  Append(kept, entry)

---------------------------------------------------------------------------
(* Keyboard::read_event for Ps2Keyboard, one action per answer of the      *)
(* controller                                                              *)

\* line 254: CONTROLLER.lock().keyboard()? fails
KeyboardUnavailable(e) ==
    /\ ~panicked
    /\ polled' = Answer("KeyboardErr", None, e)
    /\ result' = Returned("Err", None, e)
    /\ calls' = <<"keyboard">>
    /\ UNCHANGED <<key_state_map, state, panicked, tracked, hist>>
    /\ UNCHANGED cmVars

\* a failed read_scancode taken for an empty poll
ReadScancodeFailsSwallowed(e) ==
    /\ ~panicked
    /\ polled' = Answer("ReadErr", None, e)
    /\ result' = Returned("Ok", None, "")
    /\ calls' = <<"keyboard", "read_scancode">>
    /\ UNCHANGED <<key_state_map, state, panicked, tracked, hist>>
    /\ UNCHANGED cmVars

\* line 255: keyboard.read_scancode()? fails
ReadScancodeFails(e) ==
    /\ ~panicked
    /\ polled' = Answer("ReadErr", None, e)
    /\ result' = Returned("Err", None, e)
    /\ calls' = <<"keyboard", "read_scancode">>
    /\ UNCHANGED <<key_state_map, state, panicked, tracked, hist>>
    /\ UNCHANGED cmVars

\* an empty poll taken for an invalid scancode
NoScancodeMarksDirty ==
    /\ ~panicked
    /\ polled' = Answer("Empty", None, "")
    /\ result' = Returned("Ok", None, "")
    /\ calls' = <<"keyboard", "read_scancode", "set_port_dirty">>
    /\ UNCHANGED <<key_state_map, state, panicked, tracked, hist>>
    /\ UNCHANGED cmVars

\* line 255/273: read_scancode gives Ok(None); map is skipped, unwrap_or(None)
NoScancode ==
    /\ ~panicked
    /\ polled' = Answer("Empty", None, "")
    /\ result' = Returned("Ok", None, "")
    /\ calls' = <<"keyboard", "read_scancode">>
    /\ UNCHANGED <<key_state_map, state, panicked, tracked, hist>>
    /\ UNCHANGED cmVars

\* lines 255-273: read_scancode gives Ok(Some(sc))
GotScancode(sc) ==
    /\ ~panicked
    /\ LET converted == try_from(sc)
       IN  converted.ok =>
               /\ converted.value \in InPlay
               /\ sc.make /\ ~pressed(converted.value) => Cardinality(Held) < MaxHeld
    /\ polled' = Answer("Scancode", Some(sc), "")
    /\ calls' = port_calls(create_event(sc))
    /\ LET event == create_event(sc)
       IN  IF event # None
           THEN LET ev == event[1]
                    index == ev.keycode
                IN  /\ state' = handle_state(ev)
                    /\ IF in_bounds(index)
                       THEN /\ key_state_map' = update_key_state(key_state_map, index, sc.make)
                            /\ panicked' = FALSE
                            /\ result' = Returned("Ok", event, "")
                            /\ hist' = Record(ev.keycode, sc, ev.event_type)
                       ELSE \* index out of bounds: the indexing panics
                            /\ key_state_map' = key_state_map
                            /\ panicked' = TRUE
                            /\ result' = Returned("Panic", None, "")
                            /\ hist' = Record(ev.keycode, sc, "Panic")
           ELSE /\ result' = Returned("Ok", None, "")
                /\ UNCHANGED <<key_state_map, state, panicked, hist>>
    /\ UNCHANGED tracked
    /\ UNCHANGED cmVars

---------------------------------------------------------------------------
(* Specifications *)

\* Ps2Keyboard::new
InitKeyboard ==
    /\ key_state_map = [i \in Buckets |-> 0]
    /\ state = 0
    /\ panicked = FALSE
    /\ polled = Answer("Init", None, "")
    /\ result = Returned("Init", None, "")
    /\ calls = <<>>
    /\ hist = <<>>

\* no character resolution is under way
Unresolved == <<"", "">>

\* no translation is under way
Untried == [ok |-> FALSE, value |-> [kind |-> "Untried", code |-> 0]]

\* Keycode::try_from has returned
Tried == tr_keycode.ok \/ tr_keycode.value.kind # "Untried"

InitTranslate ==
    /\ tr_scancode = [code |-> 0, extended |-> FALSE, make |-> FALSE]
    /\ tr_keycode = Untried

InitChar ==
    /\ cm_mapping = Empty
    /\ cm_modifiers = 0
    /\ cm_char = Unresolved
    /\ InitTranslate

Init == InitKeyboard /\ InitChar /\ tracked = {}

Next ==
    \/ \E e \in Ps2Errors : KeyboardUnavailable(e)
    \/ \E e \in Ps2Errors : ReadScancodeFails(e)
    \/ NoScancode
    \/ \E sc \in Scancodes : GotScancode(sc)

Spec == Init /\ [][Next]_vars

\* the same keyboard, with the scancodes of one keycode recorded
InitHist == InitKeyboard /\ InitChar /\ \E k \in Keycodes : tracked = {k}

SpecHist == InitHist /\ [][Next]_vars

---------------------------------------------------------------------------
(* KeyCharMapping::char on its own: every mapping over a small alphabet,   *)
(* under every ModifierFlags value                                         *)

Chars == {"a", "A", "7"}

Mappings ==
    {Empty}
    \cup {Single(c) : c \in Chars}
    \cup {Shifted(c, d) : c \in Chars, d \in Chars}
    \cup {Capitalized(c, d) : c \in Chars, d \in Chars}
    \cup {NumLocked(c) : c \in Chars}

\* ModifierFlags::all(): the three flags in every combination
ModifierValues == 0..(MOD_SHIFT + MOD_NUM_LOCK + MOD_CAPS_LOCK)

InitResolve ==
    /\ InitKeyboard
    /\ tracked = {}
    /\ cm_mapping \in Mappings
    /\ cm_modifiers \in ModifierValues
    /\ cm_char = Unresolved
    /\ InitTranslate

\* mapping.char(modifiers)
Resolve ==
    /\ cm_char = Unresolved
    /\ cm_char' = char(cm_mapping, cm_modifiers)
    /\ UNCHANGED <<cm_mapping, cm_modifiers, tr_scancode, tr_keycode>>
    /\ UNCHANGED kbdVars

SpecChar == InitResolve /\ [][Resolve]_vars

---------------------------------------------------------------------------
(* Keycode::try_from on its own: every byte, under both flags *)

Bytes == 0..255

InitTry ==
    /\ InitKeyboard
    /\ tracked = {}
    /\ cm_mapping = Empty
    /\ cm_modifiers = 0
    /\ cm_char = Unresolved
    /\ tr_scancode \in [code : Bytes, extended : BOOLEAN, make : BOOLEAN]
    /\ tr_keycode = Untried

\* scancode.try_into()
Translate ==
    /\ ~Tried
    /\ tr_keycode' = try_from(tr_scancode)
    /\ UNCHANGED <<cm_mapping, cm_modifiers, cm_char, tr_scancode>>
    /\ UNCHANGED kbdVars

SpecTranslate == InitTry /\ [][Translate]_vars

---------------------------------------------------------------------------
(* What the claims speak of *)

\* the ModifierFlags values with SHIFT, with NUM_LOCK, with CAPS_LOCK
WithShift == {1, 3, 5, 7}

WithNumLock == {2, 3, 6, 7}

WithCapsLock == {4, 5, 6, 7}

\* the last read_event returned Ok(Some(event))
Emitted == result.tag = "Ok" /\ result.event # None

\* the event the last read_event returned
TheEvent == result.event[1]

\* the last read_event got a scancode from the controller
Consumed == polled.outcome = "Scancode"

\* the scancode the last read_event got
TheScancode == polled.sc[1]

\* the last read_event asked the controller to mark the port dirty
MarkedDirty == \E i \in DOMAIN calls : calls[i] = "set_port_dirty"

---------------------------------------------------------------------------
(* Character resolution *)

C8_NumLockGate ==
    (cm_mapping.kind = "NumLocked" /\ cm_char # Unresolved) =>
        cm_char = (IF cm_modifiers \in WithNumLock THEN None ELSE Some(cm_mapping.base))

\* num lock, shift and caps lock together resolved a NumLocked mapping to None
C8_Witness ==
    /\ cm_mapping = NumLocked("7")
    /\ cm_modifiers \in WithNumLock \cap WithShift \cap WithCapsLock
    /\ cm_char = None

---------------------------------------------------------------------------
(* Lock state *)

\* the last read_event returned an event of the given type for keycode k
EventOf(k, event_type) ==
    Emitted /\ TheEvent.keycode = k /\ TheEvent.event_type = event_type

\* C3: each of caps_lock(), num_lock() and scroll_lock() changes in a
\* read_event exactly when that read_event returns an event classified Make
\* for its lock keycode: such an event flips it, an event classified Break or
\* Repeat for that keycode, like any other outcome, leaves it as it was, so
\* the next Make flips it back.
C3_LockToggle ==
    [][ /\ (caps_lock' # caps_lock) <=> EventOf(CAPS_LOCK, "Make")'
        /\ (num_lock' # num_lock) <=> EventOf(NUM_LOCK, "Make")'
        /\ (scroll_lock' # scroll_lock) <=> EventOf(SCROLL_LOCK, "Make")'
      ]_vars

\* caps lock is held through a repeat, with the three locks on
C3_Witness ==
    /\ EventOf(CAPS_LOCK, "Repeat")
    /\ caps_lock /\ num_lock /\ scroll_lock

---------------------------------------------------------------------------
(* Scancodes that do not translate, empty polls, controller errors *)

\* the last read_event got a scancode that fails translation
Untranslated == Consumed /\ ~try_from(TheScancode).ok

\* C4: a read_event that gets a scancode failing translation returns
\* Ok(None), leaves key_state_map and the StateFlags as they were, and marks
\* the port dirty; no other read_event marks the port dirty.
C4_UnknownScancode ==
    [][ /\ Untranslated' =>
              /\ result' = Returned("Ok", None, "")
              /\ key_state_map' = key_state_map
              /\ state' = state
              /\ ~panicked'
              /\ MarkedDirty'
        /\ MarkedDirty' => Untranslated'
      ]_vars

\* an unknown scancode arrived with a shift key held and caps lock on
C4_Witness ==
    /\ Untranslated
    /\ pressed(LEFT_SHIFT) /\ caps_lock
    /\ result = Returned("Ok", None, "")
    /\ MarkedDirty

C10_ControllerError ==
    [][ /\ polled'.outcome = "KeyboardErr" =>
              /\ result' = Returned("Err", None, polled'.err)
              /\ calls' = <<"keyboard">>
              /\ key_state_map' = key_state_map /\ state' = state
        /\ polled'.outcome = "ReadErr" =>
              /\ result' = Returned("Err", None, polled'.err)
              /\ calls' = <<"keyboard", "read_scancode">>
              /\ key_state_map' = key_state_map /\ state' = state
        /\ result'.tag = "Err" => polled'.outcome \in {"KeyboardErr", "ReadErr"}
      ]_vars

\* read_scancode failed with a key held and a lock on
C10_Witness ==
    /\ polled = Answer("ReadErr", None, "ExpectedResponse")
    /\ result = Returned("Err", None, "ExpectedResponse")
    /\ pressed(RIGHT_SHIFT) /\ scroll_lock

---------------------------------------------------------------------------
(* The character of an event *)

\* the modifiers satisfy the mapping's condition
Satisfies(mapping, modifiers) ==
    \/ mapping.kind \in {"Single", "Shifted", "Capitalized"}
    \/ mapping.kind = "NumLocked" /\ modifiers \notin WithNumLock

\* the character the mapping stands for under the modifiers
Resolved(mapping, modifiers) ==
    CASE mapping.kind = "Shifted" ->
            IF modifiers \in WithShift THEN mapping.alt ELSE mapping.base
      [] mapping.kind = "Capitalized" ->
            IF (modifiers \in WithCapsLock) # (modifiers \in WithShift)
            THEN mapping.alt ELSE mapping.base
      [] OTHER -> mapping.base

\* C6: every event read_event returns, whatever its type, has a char exactly
\* when its keycode's mapping is not Empty and the event's own modifiers
\* satisfy the mapping's condition, and the char is then the one the mapping
\* resolves to under those modifiers.
C6_EventChar ==
    Emitted =>
        LET mapping == get_us_qwerty_char(TheEvent.keycode)
        IN  /\ TheEvent.char # None <=>
                  (mapping.kind # "Empty" /\ Satisfies(mapping, TheEvent.modifiers))
            /\ TheEvent.char # None =>
                  TheEvent.char = Some(Resolved(mapping, TheEvent.modifiers))

\* a Break event without char for a NumLocked key, num lock on, shift held
C6_Witness ==
    /\ Emitted
    /\ TheEvent.keycode = NUM_PAD_7 /\ TheEvent.event_type = "Break"
    /\ TheEvent.modifiers \in WithNumLock \cap WithShift
    /\ TheEvent.char = None

---------------------------------------------------------------------------
(* Pressed keys *)

\* C5: every keycode 0..254 has its bit in key_state_map: a read_event that
\* gets a scancode translating to K completes, with pressed(K) true after a
\* make and false after a break.
C5_EveryKeycodeHasBit ==
    (Consumed /\ try_from(TheScancode).ok) =>
        /\ result.tag = "Ok"
        /\ pressed(try_from(TheScancode).value) = TheScancode.make

\* the last scancode consumed for the tracked keycode
LastOfTracked == hist[Len(hist)]

\* C1: for the keycode K, pressed(K) is true exactly when a scancode
\* translating to K has been consumed and the most recent of them was a make.
C1_PressedIffLastMake ==
    \A K \in tracked : pressed(K) <=> (hist # <<>> /\ LastOfTracked.make)

\* C2: a make for a keycode K that is not pressed yields Make, a make that
\* follows it with no break for K in between yields Repeat, a break after
\* these yields Break and leaves pressed(K) false; and a make yields Repeat
\* exactly when pressed(K) was set when it arrived.
C2_MakeRepeatBreak ==
    \A K \in tracked :
        /\ \A i \in DOMAIN hist :
              /\ (hist[i].make /\ ~hist[i].was_pressed) => hist[i].returned = "Make"
              /\ hist[i].make => (hist[i].returned = "Repeat" <=> hist[i].was_pressed)
        /\ \A i \in DOMAIN hist :
              (i + 2 \in DOMAIN hist /\ hist[i].make /\ ~hist[i].was_pressed
                 /\ hist[i + 1].make /\ ~hist[i + 2].make) =>
                  /\ <<hist[i].returned, hist[i + 1].returned, hist[i + 2].returned>>
                        = <<"Make", "Repeat", "Break">>
                  /\ (i + 2 = Len(hist) => ~pressed(K))

---------------------------------------------------------------------------
(* Scancode translation *)

\* the table the scancode's extended flag selects, at the scancode's code
Selected(sc) ==
    IF sc.extended THEN get_extended_code_ps2_set_2(sc.code) ELSE get_code_ps2_set_2(sc.code)

\* the table the scancode's extended flag does not select
Unselected(sc) ==
    IF sc.extended THEN get_code_ps2_set_2(sc.code) ELSE get_extended_code_ps2_set_2(sc.code)

\* C11: translation looks the code up in the table the extended flag selects
\* and in no other; a code that table lacks fails, also when the other table
\* has it, with UnknownPlainScancode(code) for a plain scancode and
\* UnknownExtendedScancode(code) for an extended one, code being the
\* scancode's byte; the make flag has no part in the result.
C11_SelectedTableOnly ==
    Tried =>
        /\ Selected(tr_scancode) # None =>
              tr_keycode.ok /\ tr_keycode.value = Selected(tr_scancode)[1]
        /\ Selected(tr_scancode) = None =>
              /\ ~tr_keycode.ok
              /\ tr_keycode.value = [kind |-> IF tr_scancode.extended
                                              THEN "UnknownExtendedScancode"
                                              ELSE "UnknownPlainScancode",
                                     code |-> tr_scancode.code]

\* Q's plain code, sent extended, failed although the plain table has it
C11_Witness ==
    /\ Tried
    /\ tr_scancode.extended /\ tr_scancode.code = 21
    /\ Selected(tr_scancode) = None /\ Unselected(tr_scancode) # None
    /\ ~tr_keycode.ok
    /\ tr_keycode.value = [kind |-> "UnknownExtendedScancode", code |-> 21]

---------------------------------------------------------------------------
(* Modifiers of an event *)

\* a shift key is pressed
ShiftHeld == pressed(LEFT_SHIFT) \/ pressed(RIGHT_SHIFT)

\* C12: the modifiers of every returned event are those of the state before
\* the event's scancode was applied: SHIFT is set exactly when LEFT_SHIFT or
\* RIGHT_SHIFT was pressed, NUM_LOCK and CAPS_LOCK exactly when num_lock() and
\* caps_lock() held.  So the Make of a shift key with the other shift key up
\* has SHIFT clear, the Break of the only held shift key has SHIFT set, and
\* the Make that turns caps lock on has CAPS_LOCK clear.
C12_ModifiersBefore ==
    [][ Emitted' =>
          /\ (TheEvent'.modifiers \in WithShift) <=> ShiftHeld
          /\ (TheEvent'.modifiers \in WithNumLock) <=> num_lock
          /\ (TheEvent'.modifiers \in WithCapsLock) <=> caps_lock
          /\ \A k \in {LEFT_SHIFT, RIGHT_SHIFT} :
                LET other == IF k = LEFT_SHIFT THEN RIGHT_SHIFT ELSE LEFT_SHIFT
                IN  /\ (EventOf(k, "Make")' /\ ~pressed(other)) =>
                          TheEvent'.modifiers \notin WithShift
                    /\ (EventOf(k, "Break")' /\ pressed(k) /\ ~pressed(other)) =>
                          TheEvent'.modifiers \in WithShift
                    /\ pressed(other) => TheEvent'.modifiers \in WithShift
          /\ (EventOf(CAPS_LOCK, "Make")' /\ caps_lock') =>
                TheEvent'.modifiers \notin WithCapsLock
      ]_vars

\* the right shift key, the only one held, is released: its Break has SHIFT
\* set and no shift key is pressed any more
C12_Witness ==
    /\ EventOf(RIGHT_SHIFT, "Break")
    /\ TheEvent.modifiers \in WithShift
    /\ ~ShiftHeld

---------------------------------------------------------------------------
(* Function lock *)

\* C13: function_lock() changes in a read_event exactly when that read_event
\* returns an event classified Make for Escape and FUNCTION was pressed when
\* the scancode arrived; it then flips.  An Escape Make without Function, an
\* Escape Repeat or Break, and a make or break of Function leave it.
C13_FunctionLock ==
    [][ (function_lock' # function_lock) <=> (EventOf(ESCAPE, "Make")' /\ pressed(FUNCTION)) ]_vars

\* Escape was pressed with Function held, and function lock is on
C13_Witness ==
    /\ EventOf(ESCAPE, "Make")
    /\ pressed(FUNCTION)
    /\ function_lock

---------------------------------------------------------------------------
(* Caps lock and shift on a letter *)

---------------------------------------------------------------------------
(* What a scancode changes *)

\* the StateFlags bit that the keycode's key toggles, 0 for no bit
FlagOfKey(k) ==
    CASE k = NUM_LOCK -> 1
      [] k = SCROLL_LOCK -> 2
      [] k = CAPS_LOCK -> 4
      [] k = ESCAPE -> 8
      [] OTHER -> 0

\* the last read_event got a scancode that translates
Translated == Consumed /\ try_from(TheScancode).ok

\* C15: a read_event that consumes a scancode translating to K changes no
\* bit of key_state_map but K's, sets K's bit only on a make and clears it
\* only on a break, and changes no StateFlags bit but the one of K's key, K
\* being a lock key or Escape.
C15_Frame ==
    [][ Translated' =>
          LET K == try_from(TheScancode').value
              bucket == K \div 8
              bit == 2 ^ (K % 8)
          IN  /\ IF bucket \in Buckets
                 THEN LET old == key_state_map[bucket]
                          new == key_state_map'[bucket]
                      IN  /\ key_state_map' = [key_state_map EXCEPT ![bucket] = new]
                          /\ \/ new = old
                             \/ new = old + bit /\ ~pressed_in(key_state_map, K)
                                   /\ TheScancode'.make
                             \/ new = old - bit /\ pressed_in(key_state_map, K)
                                   /\ ~TheScancode'.make
                 ELSE key_state_map' = key_state_map
              /\ \A f \in {1, 2, 4, 8} :
                    f # FlagOfKey(K) => (HasBit(state', f) <=> HasBit(state, f))
      ]_vars

\* the numeric pad's 7 is pressed while num lock, of the same byte of
\* key_state_map, is held
C15_Witness ==
    /\ EventOf(NUM_PAD_7, "Make")
    /\ pressed(NUM_LOCK) /\ pressed(NUM_PAD_7)
    /\ num_lock

---------------------------------------------------------------------------
(* Breaks of keys that are not pressed *)

\* C16: a break scancode for a keycode K whose pressed bit is clear yields an
\* event of type Break for K, leaves pressed(K) false and changes no
\* StateFlags bit, also when K is a lock keycode.
C16_BreakOfUnpressed ==
    [][ (Translated' /\ ~TheScancode'.make
           /\ ~pressed_in(key_state_map, try_from(TheScancode').value)) =>
          LET K == try_from(TheScancode').value
          IN  /\ Emitted'
              /\ TheEvent'.keycode = K
              /\ TheEvent'.event_type = "Break"
              /\ ~pressed_in(key_state_map', K)
              /\ state' = state
      ]_vars

\* C18: when the break of a keycode K arrives before its make, the events
\* are Break then Make, pressed(K) is true from the make on, whatever empty
\* polls, unknown scancodes and scancodes of other keys follow, and the next
\* make for K yields Repeat.
C18_BreakBeforeMake ==
    \A K \in tracked :
        \A i \in DOMAIN hist :
            (~hist[i].make /\ ~hist[i].was_pressed) =>
                /\ hist[i].returned = "Break"
                /\ (i + 1 \in DOMAIN hist /\ hist[i + 1].make) =>
                      /\ hist[i + 1].returned = "Make"
                      /\ (i + 1 = Len(hist) => pressed(K))
                      /\ (i + 2 \in DOMAIN hist /\ hist[i + 2].make) =>
                            hist[i + 2].returned = "Repeat"

---------------------------------------------------------------------------
(* Shifted, Single and Empty mappings *)

\* C17: char gives, for Shifted(base, alt), alt when SHIFT is set and base
\* when it is not, whatever CAPS_LOCK and NUM_LOCK are; for Single(c), c under
\* every ModifierFlags value; for Empty, None under every ModifierFlags value.
C17_ShiftedSingleEmpty ==
    cm_char # Unresolved =>
        /\ cm_mapping.kind = "Shifted" =>
              cm_char = Some(IF cm_modifiers \in WithShift THEN cm_mapping.alt ELSE cm_mapping.base)
        /\ cm_mapping.kind = "Single" => cm_char = Some(cm_mapping.base)
        /\ cm_mapping.kind = "Empty" => cm_char = None

\* caps lock and num lock without shift resolved a Shifted mapping to its base
C17_Witness ==
    /\ cm_mapping = Shifted("a", "A")
    /\ cm_modifiers \in (WithCapsLock \cap WithNumLock) \ WithShift
    /\ cm_char = Some("a")

====
